---- MODULE Spec2Model ----
(***************************************************************************)
(* Token lifecycle and request-forwarding proxy of nestjs-nextjs-api-proxy. *)
(*                                                                         *)
(* Part 1 models the Next.js catch-all route handler                       *)
(*   frontend/app/api/(api-proxy)/[...path]/route.ts  (lines 1-492)        *)
(* with its helpers in frontend/lib/proxy-utils.ts and session.ts.  The    *)
(* backend is the environment of the proxy: every outbound fetch is        *)
(* answered by a nondeterministically chosen outcome.                      *)
(*                                                                         *)
(* Part 2 models the NestJS refresh-token rotation of                      *)
(*   backend/src/auth/auth.service.ts (lines 135-373) and                  *)
(*   backend/src/auth/auth.controller.ts (lines 63-182)                    *)
(* over the sessions table.                                                *)
(***************************************************************************)
EXTENDS Integers, Sequences, FiniteSets, TLC

VARIABLES
    req,          \* proxy: the incoming NextRequest of each handler invocation
    pc,           \* proxy: where each invocation of handleRequest is suspended
    loc,          \* proxy: the locals of each invocation
    sent,         \* proxy: the forwards fetch()ed to the backend, with their answers
    refreshSent,  \* proxy: the calls fetch()ed to the refresh endpoint
    out,          \* proxy: the NextResponse returned to the client
    sessions,     \* backend: the rows of the sessions table
    now,          \* backend: Date.now(), in milliseconds
    ticks,        \* backend: number of clock advances so far
    bpc,          \* backend: where each refresh request is suspended
    bloc,         \* backend: what each refresh request holds (req.user, token)
    bresp,        \* backend: what the refresh endpoint did in the last step: the
                  \* token it was presented, the service call made, the answer sent
    rotations     \* history: the last two rotations written to the table,
                  \* kept in SpecChain only

pvars == <<req, pc, loc, sent, refreshSent, out>>
bvars == <<sessions, now, ticks, bpc, bloc, bresp, rotations>>
vars ==
    <<req, pc, loc, sent, refreshSent, out, sessions, now, ticks, bpc, bloc,
      bresp, rotations>>

----------------------------------------------------------------------------
(* Bounds of the model *)

MaxTicks == 3       \* clock advances in one behaviour
MaxSessions == 2    \* session records in the table, where several are allowed

----------------------------------------------------------------------------
(* frontend/lib/config.ts *)

SIGN_IN_ENDPOINT == "/auth/sign-in"
SIGN_OUT_ENDPOINT == "/auth/sign-out"
REFRESH_ENDPOINT == "/auth/refresh"

\* milliseconds: 7 * 24 * 60 * 60 * 1000
SESSION_EXPIRES_IN == 604800000

\* default value of the parameter `retries` of forwardRequestWithRetry
retries == 2

----------------------------------------------------------------------------
(* Values *)

Undef == "undefined"            \* JavaScript undefined / a missing field

Truthy(v) == v # Undef /\ v # ""

\* The handler invocations that can be in flight in one process.
Reqs == {"r1", "r2"}

\* The session envelope (SessionPayload) as far as the handler reads it.
NoSession ==
    [present |-> FALSE, id |-> Undef, accessToken |-> Undef,
     refreshToken |-> Undef, rememberMe |-> FALSE]

Envelope(id, at, rt, rm) ==
    [present |-> TRUE, id |-> id, accessToken |-> at, refreshToken |-> rt,
     rememberMe |-> rm]

\* Session cookies a browser can present: none, or a JWS that is intact,
\* tampered with, or past its exp claim.  An intact envelope whose tokens are
\* undefined is what a refresh answer without the token fields leaves behind.
Cookies ==
    {[state |-> "absent", env |-> NoSession]}
    \cup { [state |-> "ok", env |-> Envelope("u1", "AT1", "RT1", rm)] :
             rm \in BOOLEAN }
    \cup { [state |-> s, env |-> Envelope("u1", "AT1", "RT1", FALSE)] :
             s \in {"tampered", "expired"} }
    \cup {[state |-> "ok", env |-> Envelope("u1", Undef, Undef, FALSE)]}

\* decrypt() that reads the payload without verifying signature and exp.
decryptUnverified(cookie) ==
    cookie.env

\* session.ts decrypt(): jwtVerify throws on a bad signature or a past exp;
\* the catch logs and the function returns undefined.
decrypt(cookie) ==
    IF cookie.state = "ok" THEN cookie.env ELSE NoSession

\* Request bodies as the handler distinguishes them: JSON with rememberMe
\* true, JSON without it, the empty string, and text that is not JSON.
Bodies == {"json_rm", "json", "", "text"}

Methods == {"GET", "POST"}

\* The lists of path segments of the catch-all route (params.path).
PathSegmentLists ==
    {<<"items">>, <<"auth", "sign-in">>, <<"auth", "sign-out">>, <<>>}

\* Array.prototype.join("/").
RECURSIVE join(_)
join(pathSegments) ==
    IF pathSegments = <<>> THEN ""
    ELSE IF Len(pathSegments) = 1 THEN pathSegments[1]
    ELSE pathSegments[1] \o "/" \o join(Tail(pathSegments))

\* route.ts handleRequest() line 358: `/${pathSegments.join("/")}`.
fullPathOf(pathSegments) == "/" \o join(pathSegments)

ContentTypes ==
    {"application/json", "multipart/form-data", "application/octet-stream"}

\* The query string of the request URL (url.search) and the Authorization
\* header the client itself sent (the credentials after "Bearer ").
Searches == {"", "?page=2"}
ClientAuthorizations == {Undef, "client"}

\* A request for /items may carry a query string or an Authorization header
\* of its own; the requests for the other paths carry neither.  The handler
\* looks into the body of a sign-in only (JSON.parse(cachedBody).rememberMe):
\* the bodies of the other requests are "json" and "".
Requests ==
    { rq \in [method : Methods, pathSegments : PathSegmentLists,
              search : Searches, authorization : ClientAuthorizations,
              ctype : ContentTypes, cookie : Cookies, body : Bodies] :
        /\ \/ rq.search = "" /\ rq.authorization = Undef
           \/ /\ rq.pathSegments = <<"items">>
              /\ rq.search = "" \/ rq.authorization = Undef
        /\ rq.body \in {"json_rm", "text"}
           => rq.pathSegments = <<"auth", "sign-in">> }

\* A GET carries no body.
WellFormed(rq) == rq.method = "GET" => rq.body = ""

NoRequest ==
    [method |-> "GET", pathSegments |-> <<>>, search |-> "",
     authorization |-> Undef,
     ctype |-> "application/json",
     cookie |-> [state |-> "absent", env |-> NoSession], body |-> ""]

----------------------------------------------------------------------------
(* Responses *)

NoCookieOp == [op |-> "none", env |-> NoSession, persistent |-> FALSE, ttl |-> 0]
DeleteCookie == [op |-> "delete", env |-> NoSession, persistent |-> FALSE, ttl |-> 0]

\* encrypt() that gives every token the long lifetime.
encryptAlwaysLong(payload) ==
    [payload |-> payload, ttl |-> SESSION_EXPIRES_IN]

\* session.ts encrypt(): the JWS of the payload; its exp claim is Date.now() +
\* SESSION_EXPIRES_IN for a remember-me payload and Date.now() + 60 * 60 * 1000
\* otherwise.  ttl is exp - Date.now(), in milliseconds.
encrypt(payload) ==
    [payload |-> payload,
     ttl |-> IF payload.rememberMe = TRUE
             THEN SESSION_EXPIRES_IN ELSE 60 * 60 * 1000]

\* session.ts setSessionCookie(cookies, session, expires): the envelope is
\* encrypted and set; `expires` is given only for remember-me sessions.
setSessionCookie(env, persistent) ==
    [op |-> "set", env |-> encrypt(env).payload, persistent |-> persistent,
     ttl |-> encrypt(env).ttl]

\* What the backend can answer to a forward.  body: "auth" is JSON holding
\* accessToken, refreshToken, id and email; "json" is JSON without them;
\* "text" is not JSON.
Statuses == {200, 401, 404, 500}
RespBodies == {"auth", "json", "text"}

\* A binary answer (a download) is not JSON.
BackendAnswers ==
    { [kind |-> "resp", status |-> s, binary |-> FALSE, body |-> b] :
        s \in Statuses, b \in RespBodies }
    \cup { [kind |-> "resp", status |-> s, binary |-> TRUE, body |-> "text"] :
             s \in Statuses }
    \cup { [kind |-> k, status |-> 0, binary |-> FALSE, body |-> "text"] :
             k \in {"abort", "neterr"} }

\* The headers that have to be computed again for a body that was read or
\* re-sent, and the headers of a backend answer: these and two others.
RecomputedHeaders == {"content-length", "content-encoding", "transfer-encoding"}
BackendHeaders == RecomputedHeaders \cup {"content-type", "x-request-id"}

\* piped: the body is a byte stream handed on; readAsText: the body was read
\* with response.text() on its way.
NoResponse ==
    [status |-> 0, binary |-> FALSE, body |-> "text", cookie |-> NoCookieOp,
     code |-> "", piped |-> FALSE, readAsText |-> FALSE, headers |-> {}]

\* The fetch Response of a backend answer.
FetchResponse(ans) ==
    [status |-> ans.status, binary |-> ans.binary, body |-> ans.body,
     cookie |-> NoCookieOp, code |-> "", piped |-> FALSE,
     readAsText |-> FALSE, headers |-> BackendHeaders]

ok(response) == response.status >= 200 /\ response.status <= 299

\* route.ts createErrorResponse(): NextResponse.json({error, message, code,
\* statusCode}, {status}).
createErrorResponse(code, statusCode) ==
    [status |-> statusCode, binary |-> FALSE, body |-> "json",
     cookie |-> NoCookieOp, code |-> code, piped |-> FALSE,
     readAsText |-> FALSE, headers |-> {"content-type"}]

\* proxy-utils.ts createNextResponse(response, body): body is the text the
\* caller read from the response; the status is copied, and the headers but
\* content-length, content-encoding and transfer-encoding.
createNextResponse(response) ==
    [response EXCEPT !.piped = FALSE, !.readAsText = TRUE,
                     !.headers = @ \ RecomputedHeaders]

\* proxy-utils.ts createStreamingResponse(): response.body is passed on with
\* the status and a copy of all the headers.
createStreamingResponse(response) ==
    [response EXCEPT !.piped = TRUE]

----------------------------------------------------------------------------
(* Outbound requests *)

\* The headers of the incoming request: request.headers.  authorization
\* holds the credentials after "Bearer "; the browser sends the host, and the
\* cookie header when it holds a session cookie.
IncomingHeaders(rq) ==
    [authorization |-> rq.authorization,
     host |-> "frontend",
     cookie |-> IF rq.cookie.state = "absent" THEN Undef ELSE "session",
     ctype |-> rq.ctype]

\* prepareHeaders() that sets Authorization only where the client sent none.
prepareHeadersKeepsClientAuthorization(rq, accessToken) ==
    [IncomingHeaders(rq) EXCEPT
       !.authorization = IF Truthy(accessToken) /\ @ = Undef
                         THEN accessToken ELSE @,
       !.host = Undef,
       !.cookie = Undef]

\* proxy-utils.ts prepareHeaders(): a copy of the incoming headers in which
\* Authorization is set to `Bearer <accessToken>` when an access token is
\* given, and host and cookie are deleted.
prepareHeaders(rq, accessToken) ==
    [IncomingHeaders(rq) EXCEPT
       !.authorization = IF Truthy(accessToken) THEN accessToken ELSE @,
       !.host = Undef,
       !.cookie = Undef]

\* route.ts forwardRequest(): the fetch it issues.  options.body is set only
\* when cachedBody is not undefined.
forwardRequest(rq, path, accessToken, cachedBody) ==
    [method |-> rq.method, path |-> path, search |-> rq.search,
     headers |-> prepareHeaders(rq, accessToken),
     body |-> cachedBody, streaming |-> FALSE]

\* route.ts forwardRequestStreaming(): the fetch it issues, body: request.body.
forwardRequestStreaming(rq, path, accessToken) ==
    [method |-> rq.method, path |-> path, search |-> rq.search,
     headers |-> prepareHeaders(rq, accessToken),
     body |-> "stream", streaming |-> TRUE]

Pending == [kind |-> "pending", status |-> 0]

\* One entry of the log of forwards: the fetch, the call of
\* forwardRequestWithRetry it belongs to (1: first, 2: after the refresh),
\* and the backend's answer once it has arrived.
Forward(fetch, phase) == [fetch |-> fetch, phase |-> phase, answer |-> Pending]

Answered(log, ans) ==
    [log EXCEPT ![Len(log)].answer = [kind |-> ans.kind, status |-> ans.status]]

\* forwardRequestWithRetry() whose loop makes one attempt more: it goes on
\* while attempt <= retries instead of attempt < retries.
forwardRequestWithRetryOneMoreAttempt(attempt, ans) ==
    IF ans.kind = "resp"
    THEN IF ans.status < 500 THEN "return"
         ELSE IF attempt <= retries THEN "retry" ELSE "return"
    ELSE IF attempt <= retries THEN "retry" ELSE "throw"

\* forwardRequestWithRetry() that retries thrown errors only and hands a 5xx
\* response back at once.
forwardRequestWithRetryReturns5xx(attempt, ans) ==
    IF ans.kind = "resp" THEN "return"
    ELSE IF attempt < retries THEN "retry" ELSE "throw"

\* forwardRequestWithRetry() that throws once the last attempt was answered
\* 5xx, instead of returning that response.
forwardRequestWithRetryThrowsOn5xx(attempt, ans) ==
    IF ans.kind = "resp" /\ ans.status < 500 THEN "return"
    ELSE IF attempt < retries THEN "retry" ELSE "throw"

\* forwardRequestWithRetry() that makes another attempt after any response
\* that is not a success.
forwardRequestWithRetryRetries4xx(attempt, ans) ==
    IF ans.kind = "resp"
    THEN IF ans.status < 400 THEN "return"
         ELSE IF attempt < retries THEN "retry" ELSE "return"
    ELSE IF attempt < retries THEN "retry" ELSE "throw"

\* route.ts forwardRequestWithRetry(), one turn of its loop on the outcome of
\* the attempt: a response below 500 is returned; a 5xx is retried while
\* attempt < retries and returned otherwise; a timeout (AbortError) or a
\* network error is retried while attempt < retries, and thrown otherwise.
forwardRequestWithRetry(attempt, ans) ==
    IF ans.kind = "resp"
    THEN IF ans.status < 500 THEN "return"
         ELSE IF attempt < retries THEN "retry" ELSE "return"
    ELSE IF attempt < retries THEN "retry" ELSE "throw"

----------------------------------------------------------------------------
(* Refresh *)

\* What the backend's refresh endpoint can answer: no answer (network
\* error), a non-2xx status, 2xx with a body that is not JSON, 2xx with a
\* JSON object lacking the token fields, 2xx with {access_token,
\* refresh_token}.
RefreshAnswers == {"neterr", "non2xx", "unparseable", "wrongshape", "ok"}

Null == [isNull |-> TRUE, access_token |-> Undef, refresh_token |-> Undef]

\* refreshAccessToken() that does not look at response.ok and returns the
\* parsed body of a refusal as well.
refreshAccessTokenIgnoresStatus(ans) ==
    CASE ans = "ok" ->
           [isNull |-> FALSE, access_token |-> "AT2", refresh_token |-> "RT2"]
      [] ans \in {"wrongshape", "non2xx"} ->
           [isNull |-> FALSE, access_token |-> Undef, refresh_token |-> Undef]
      [] OTHER -> Null

\* proxy-utils.ts refreshAccessToken(): null when fetch throws, when
\* !response.ok, or when response.json() throws; otherwise the parsed body,
\* returned as it is.
refreshAccessToken(ans) ==
    CASE ans = "ok" ->
           [isNull |-> FALSE, access_token |-> "AT2", refresh_token |-> "RT2"]
      [] ans = "wrongshape" ->
           [isNull |-> FALSE, access_token |-> Undef, refresh_token |-> Undef]
      [] OTHER -> Null

\* The call refreshAccessToken() fetches: POST REFRESH_ENDPOINT with the
\* refresh token as bearer; no body is sent.
RefreshCall(refreshToken) ==
    [authorization |-> refreshToken, body |-> Undef]

\* An envelope that takes the new access token and keeps the old refresh
\* token.
RefreshedSessionKeepsRefreshToken(session, result) ==
    [session EXCEPT !.accessToken = result.access_token]

\* route.ts handleTokenRefresh(), the envelope of the re-issued cookie:
\* {...sessionPayload, accessToken, refreshToken} of the refresh result.
RefreshedSession(session, result) ==
    [session EXCEPT !.accessToken = result.access_token,
                    !.refreshToken = result.refresh_token]

\* route.ts handleTokenRefresh(), refresh failed: 401 TOKEN_REFRESH_FAILED
\* with the session cookie deleted.
RefreshFailedResponse ==
    [createErrorResponse("TOKEN_REFRESH_FAILED", 401) EXCEPT !.cookie = DeleteCookie]

\* route.ts handleTokenRefresh(), the retried forward returned `response`:
\* createNextResponse(response, text) with the session cookie set.
RefreshedResponse(session, result, response) ==
    [createNextResponse(response) EXCEPT
        !.cookie = setSessionCookie(RefreshedSession(session, result),
                                    session.rememberMe)]

\* route.ts handleTokenRefresh(), the retried forward threw.
RetryFailedResponse == createErrorResponse("RETRY_FAILED", 502)

----------------------------------------------------------------------------
(* Sign-in, sign-out and the classification of the response *)

\* handleSignIn() that builds the session from any JSON body without looking
\* for the required fields.
handleSignInUnvalidated(response, rememberMe) ==
    CASE response.body = "text" -> createErrorResponse("INVALID_AUTH_RESPONSE", 502)
      [] OTHER ->
           [createNextResponse(response) EXCEPT
              !.cookie = setSessionCookie(
                            Envelope(Undef, Undef, Undef, rememberMe),
                            rememberMe)]

\* route.ts handleSignIn(): 502 when the body is not JSON or lacks a required
\* field; otherwise the response with a session cookie built from the body.
handleSignIn(response, rememberMe) ==
    CASE response.body = "text" -> createErrorResponse("INVALID_AUTH_RESPONSE", 502)
      [] response.body = "json" -> createErrorResponse("INVALID_AUTH_DATA", 502)
      [] OTHER ->
           [createNextResponse(response) EXCEPT
              !.cookie = setSessionCookie(Envelope("u1", "AT3", "RT3", rememberMe),
                                          rememberMe)]

\* route.ts handleSignOut(): the response with the session cookie deleted.
handleSignOut(response) ==
    [createNextResponse(response) EXCEPT !.cookie = DeleteCookie]

\* route.ts handleRequest(), isBinaryResponse.
isBinaryResponse(response) == response.binary

\* route.ts handleRequest() lines 433-464, from the sign-in check to the
\* return.  JSON.parse(cachedBody) throws on a body that is not JSON; the
\* outer catch turns that into 502 BAD_GATEWAY.
Respond(path, cachedBody, response) ==
    IF path = SIGN_IN_ENDPOINT /\ ok(response)
    THEN IF cachedBody = "text"
         THEN createErrorResponse("BAD_GATEWAY", 502)
         ELSE handleSignIn(response, cachedBody = "json_rm")
    ELSE IF path = SIGN_OUT_ENDPOINT /\ ok(response)
    THEN handleSignOut(response)
    ELSE IF isBinaryResponse(response)
    THEN createStreamingResponse(response)
    ELSE createNextResponse(response)

\* An outer catch that answers 502 whatever was thrown.
CatchAllBadGateway(errorKind) ==
    createErrorResponse("BAD_GATEWAY", 502)

\* route.ts handleRequest(), the outer catch: 504 for an AbortError, 502 for
\* anything else.
CatchAll(errorKind) ==
    IF errorKind = "abort"
    THEN createErrorResponse("GATEWAY_TIMEOUT", 504)
    ELSE createErrorResponse("BAD_GATEWAY", 502)

----------------------------------------------------------------------------
(* handleRequest: one invocation per incoming request *)

NoLocals ==
    [session |-> NoSession, cachedBody |-> Undef, attempt |-> 0, phase |-> 0,
     refresh |-> "none", result |-> Null, threw |-> "none",
     response |-> NoResponse, reads |-> 0, fullPath |-> ""]

\* route.ts handleRequest() lines 360-367: isFileUpload || isLargeRequest.
IsStreaming(rq) ==
    rq.ctype = "multipart/form-data" \/ rq.ctype = "application/octet-stream"

\* route.ts handleRequest() lines 351-354: the session of the request.
SessionOf(rq) ==
    IF rq.cookie.state # "absent" THEN decrypt(rq.cookie) ELSE NoSession

\* route.ts lines 375 and 420: response.status === 401 && sessionPayload &&
\* refreshToken.
NeedsRefresh(response, session) ==
    response.status = 401 /\ session.present /\ Truthy(session.refreshToken)

\* A handleRequest() that reads the body for the first attempt and keeps no
\* copy of it for the attempts that follow.
BeginWithoutCache(r) ==
    /\ pc[r] = "start"
    /\ LET rq == req[r]
           session == SessionOf(rq)
           path == fullPathOf(rq.pathSegments)
           cachedBody == IF rq.method # "GET" /\ rq.method # "HEAD"
                         THEN rq.body ELSE Undef
       IN IF IsStreaming(rq)
          THEN /\ loc' = [loc EXCEPT ![r].session = session,
                                     ![r].fullPath = path]
               /\ sent' = [sent EXCEPT ![r] = Append(@,
                     Forward(forwardRequestStreaming(rq, path, session.accessToken), 1))]
               /\ pc' = [pc EXCEPT ![r] = "sfetch"]
          ELSE /\ loc' = [loc EXCEPT ![r].session = session,
                                     ![r].fullPath = path,
                                     ![r].reads = IF cachedBody = Undef THEN 0 ELSE 1,
                                     ![r].attempt = 0, ![r].phase = 1]
               /\ sent' = [sent EXCEPT ![r] = Append(@,
                     Forward(forwardRequest(rq, path, session.accessToken, cachedBody), 1))]
               /\ pc' = [pc EXCEPT ![r] = "fetch"]
    /\ UNCHANGED <<req, refreshSent, out, bvars>>

\* route.ts handleRequest() lines 350-417: the cookie is decrypted, the path
\* joined, and the first fetch issued: the streaming forward for an upload,
\* otherwise the first attempt of forwardRequestWithRetry with the body read
\* into cachedBody (undefined for GET and HEAD).
Begin(r) ==
    /\ pc[r] = "start"
    /\ LET rq == req[r]
           session == SessionOf(rq)
           path == fullPathOf(rq.pathSegments)
           cachedBody == IF rq.method # "GET" /\ rq.method # "HEAD"
                         THEN rq.body ELSE Undef
       IN IF IsStreaming(rq)
          THEN /\ loc' = [loc EXCEPT ![r].session = session,
                                     ![r].fullPath = path]
               /\ sent' = [sent EXCEPT ![r] = Append(@,
                     Forward(forwardRequestStreaming(rq, path, session.accessToken), 1))]
               /\ pc' = [pc EXCEPT ![r] = "sfetch"]
          ELSE /\ loc' = [loc EXCEPT ![r].session = session,
                                     ![r].fullPath = path,
                                     ![r].cachedBody = cachedBody,
                                     ![r].reads = IF cachedBody = Undef THEN 0 ELSE 1,
                                     ![r].attempt = 0, ![r].phase = 1]
               /\ sent' = [sent EXCEPT ![r] = Append(@,
                     Forward(forwardRequest(rq, path, session.accessToken, cachedBody), 1))]
               /\ pc' = [pc EXCEPT ![r] = "fetch"]
    /\ UNCHANGED <<req, refreshSent, out, bvars>>

\* The access token the attempts of the running forwardRequestWithRetry carry.
TokenInUse(l) ==
    IF l.phase = 2 THEN l.result.access_token ELSE l.session.accessToken

\* route.ts forwardRequestWithRetry() lines 112-160 and what handleRequest
\* (lines 412-431, 433-481) and handleTokenRefresh (lines 226-255) do with
\* what it returns or throws.
ForwardReply(r, ans) ==
    /\ pc[r] = "fetch"
    /\ LET rq == req[r]
           l == loc[r]
           log == Answered(sent[r], ans)
           todo == forwardRequestWithRetry(l.attempt, ans)
           response == FetchResponse(ans)
       IN CASE todo = "retry" ->
                 /\ loc' = [loc EXCEPT ![r].attempt = @ + 1]
                 /\ sent' = [sent EXCEPT ![r] = Append(log,
                       Forward(forwardRequest(rq, l.fullPath, TokenInUse(l), l.cachedBody),
                               l.phase))]
                 /\ UNCHANGED <<pc, refreshSent, out>>
            [] todo = "throw" /\ l.phase = 1 ->
                 /\ loc' = [loc EXCEPT ![r].threw = ans.kind]
                 /\ sent' = [sent EXCEPT ![r] = log]
                 /\ out' = [out EXCEPT ![r] = CatchAll(ans.kind)]
                 /\ pc' = [pc EXCEPT ![r] = "done"]
                 /\ UNCHANGED refreshSent
            [] todo = "throw" /\ l.phase = 2 ->
                 /\ loc' = [loc EXCEPT ![r].threw = ans.kind]
                 /\ sent' = [sent EXCEPT ![r] = log]
                 /\ out' = [out EXCEPT ![r] = Respond(l.fullPath, l.cachedBody, RetryFailedResponse)]
                 /\ pc' = [pc EXCEPT ![r] = "done"]
                 /\ UNCHANGED refreshSent
            [] todo = "return" /\ l.phase = 1 /\ NeedsRefresh(response, l.session) ->
                 /\ loc' = [loc EXCEPT ![r].response = response]
                 /\ sent' = [sent EXCEPT ![r] = log]
                 /\ refreshSent' = [refreshSent EXCEPT ![r] =
                                      Append(@, RefreshCall(l.session.refreshToken))]
                 /\ pc' = [pc EXCEPT ![r] = "refresh"]
                 /\ UNCHANGED out
            [] todo = "return" /\ l.phase = 1 /\ ~NeedsRefresh(response, l.session) ->
                 /\ loc' = [loc EXCEPT ![r].response = response]
                 /\ sent' = [sent EXCEPT ![r] = log]
                 /\ out' = [out EXCEPT ![r] = Respond(l.fullPath, l.cachedBody, response)]
                 /\ pc' = [pc EXCEPT ![r] = "done"]
                 /\ UNCHANGED refreshSent
            [] todo = "return" /\ l.phase = 2 ->
                 /\ loc' = [loc EXCEPT ![r].response = response]
                 /\ sent' = [sent EXCEPT ![r] = log]
                 /\ out' = [out EXCEPT ![r] =
                       Respond(l.fullPath, l.cachedBody,
                               RefreshedResponse(l.session, l.result, response))]
                 /\ pc' = [pc EXCEPT ![r] = "done"]
                 /\ UNCHANGED refreshSent
    /\ UNCHANGED <<req, bvars>>

\* route.ts handleTokenRefresh() lines 209-233: the refresh call settles.  No
\* result: 401 with the cookie deleted goes through the rest of
\* handleRequest.  A result: forwardRequestWithRetry is called again with
\* refreshResult.access_token and the cached body.
RefreshReply(r, ans) ==
    /\ pc[r] = "refresh"
    /\ LET rq == req[r]
           l == loc[r]
           result == refreshAccessToken(ans)
       IN IF result.isNull
          THEN /\ loc' = [loc EXCEPT ![r].refresh = ans, ![r].result = result]
               /\ out' = [out EXCEPT ![r] = Respond(l.fullPath, l.cachedBody, RefreshFailedResponse)]
               /\ pc' = [pc EXCEPT ![r] = "done"]
               /\ UNCHANGED sent
          ELSE /\ loc' = [loc EXCEPT ![r].refresh = ans, ![r].result = result,
                                     ![r].attempt = 0, ![r].phase = 2]
               /\ sent' = [sent EXCEPT ![r] = Append(@,
                     Forward(forwardRequest(rq, l.fullPath, result.access_token, l.cachedBody), 2))]
               /\ pc' = [pc EXCEPT ![r] = "fetch"]
               /\ UNCHANGED out
    /\ UNCHANGED <<req, refreshSent, bvars>>

\* route.ts handleRequest() lines 368-404: the streaming forward settles.  It
\* has no AbortController, so it ends with a response or a network error.
StreamReply(r, ans) ==
    /\ pc[r] = "sfetch"
    /\ ans.kind # "abort"
    /\ LET l == loc[r]
           response == FetchResponse(ans)
       IN /\ sent' = [sent EXCEPT ![r] = Answered(@, ans)]
          /\ IF ans.kind # "resp"
             THEN /\ loc' = [loc EXCEPT ![r].threw = ans.kind]
                  /\ out' = [out EXCEPT ![r] = CatchAll(ans.kind)]
                  /\ pc' = [pc EXCEPT ![r] = "done"]
                  /\ UNCHANGED refreshSent
             ELSE IF NeedsRefresh(response, l.session)
             THEN /\ loc' = [loc EXCEPT ![r].response = response]
                  /\ refreshSent' = [refreshSent EXCEPT ![r] =
                                       Append(@, RefreshCall(l.session.refreshToken))]
                  /\ pc' = [pc EXCEPT ![r] = "srefresh"]
                  /\ UNCHANGED out
             ELSE /\ loc' = [loc EXCEPT ![r].response = response]
                  /\ out' = [out EXCEPT ![r] = createStreamingResponse(response)]
                  /\ pc' = [pc EXCEPT ![r] = "done"]
                  /\ UNCHANGED refreshSent
    /\ UNCHANGED <<req, bvars>>

\* A streaming branch that sends the upload again after a refresh.
StreamRefreshReplyReplays(r, ans) ==
    /\ pc[r] = "srefresh"
    /\ LET result == refreshAccessToken(ans)
       IN /\ loc' = [loc EXCEPT ![r].refresh = ans, ![r].result = result]
          /\ IF result.isNull
             THEN /\ out' = [out EXCEPT ![r] = RefreshFailedResponse]
                  /\ pc' = [pc EXCEPT ![r] = "done"]
                  /\ UNCHANGED sent
             ELSE /\ sent' = [sent EXCEPT ![r] = Append(@,
                        Forward(forwardRequestStreaming(req[r], loc[r].fullPath,
                                                        result.access_token), 2))]
                  /\ pc' = [pc EXCEPT ![r] = "sfetch"]
                  /\ UNCHANGED out
    /\ UNCHANGED <<req, refreshSent, bvars>>

\* route.ts handleRequest() lines 376-399: the refresh call made for an upload
\* settles.  The upload is not replayed.
StreamRefreshReply(r, ans) ==
    /\ pc[r] = "srefresh"
    /\ LET result == refreshAccessToken(ans)
       IN /\ loc' = [loc EXCEPT ![r].refresh = ans, ![r].result = result]
          /\ out' = [out EXCEPT ![r] =
                IF result.isNull
                THEN RefreshFailedResponse
                ELSE createErrorResponse("UPLOAD_AUTH_EXPIRED", 401)]
          /\ pc' = [pc EXCEPT ![r] = "done"]
    /\ UNCHANGED <<req, sent, refreshSent, bvars>>

----------------------------------------------------------------------------
(* Part 2: the backend's sessions table and refresh endpoint *)

\* auth.service.ts lines 146-147
GRACE_PERIOD_MS == 20000
REFRESH_TOKEN_SHORT_EXPIRATION_TIME == 86400000

\* README.md, backend .env: seconds
JWT_ACCESS_TOKEN_EXPIRATION_TIME == 900
JWT_REFRESH_TOKEN_EXPIRATION_TIME == 604800

Users == {"u1"}
\* The clients (tabs, devices, proxy instances) calling the refresh endpoint.
Callers == {"c1", "c2"}

\* A signed JWT is its claims: jsonwebtoken sets iat to the current time in
\* whole seconds and exp to iat + expiresIn, and the HS256 signature is a
\* function of header, claims and secret.  Two tokens signed with one secret
\* for one user in the same second with the same expiresIn are the same
\* string.
NullToken == [typ |-> "null", sub |-> "", iat |-> 0, exp |-> 0]

\* auth.service.ts signAccessToken()
signAccessToken(user, t) ==
    [typ |-> "access", sub |-> user, iat |-> t \div 1000,
     exp |-> (t \div 1000) + JWT_ACCESS_TOKEN_EXPIRATION_TIME]

\* auth.service.ts signRefreshToken(): expiresIn is the configured time for
\* remember-me and '1d' otherwise.
signRefreshToken(user, rememberMe, t) ==
    [typ |-> "refresh", sub |-> user, iat |-> t \div 1000,
     exp |-> (t \div 1000) + (IF rememberMe THEN JWT_REFRESH_TOKEN_EXPIRATION_TIME
                               ELSE 86400)]

\* auth.service.ts createTokens()/rotateTokens(): the expiresAt column.
ExpiresAt(rememberMe, t) ==
    IF rememberMe THEN t + JWT_REFRESH_TOKEN_EXPIRATION_TIME * 1000
    ELSE t + REFRESH_TOKEN_SHORT_EXPIRATION_TIME

\* A refresh guard that does not look at the exp claim.
JwtRefreshVerifiedIgnoreExpiration(token, t) ==
    token.typ = "refresh"

\* passport-jwt with ignoreExpiration: false and the refresh secret: the
\* token was signed with the refresh secret and its exp claim is in the
\* future.
JwtRefreshVerified(token, t) ==
    token.typ = "refresh" /\ (t \div 1000) < token.exp

\* The primary key sessions_pk (user_id, refresh_token).
PkTaken(rows, userId, refreshToken) ==
    \E row \in rows : row.userId = userId /\ row.refreshToken = refreshToken

\* auth.service.ts createTokens(): the row it inserts.
NewSession(user, rememberMe, t) ==
    [userId |-> user,
     accessToken |-> signAccessToken(user, t),
     refreshToken |-> signRefreshToken(user, rememberMe, t),
     previousRefreshToken |-> NullToken,
     previousRefreshTokenExpiresAt |-> 0,
     expiresAt |-> ExpiresAt(rememberMe, t)]

\* validateRefreshTokenLogic() that accepts the previous token without
\* looking at previousRefreshTokenExpiresAt.
validateRefreshTokenLogicNoExpiry(rows, userId, incomingRefreshToken, t) ==
    LET found == { row \in rows :
                     /\ row.userId = userId
                     /\ \/ row.refreshToken = incomingRefreshToken
                        \/ row.previousRefreshToken = incomingRefreshToken }
    IN IF found = {}
       THEN {[status |-> 401, record |-> NullToken, isGracePeriod |-> FALSE]}
       ELSE { [status |-> 200, record |-> record.refreshToken,
               isGracePeriod |-> record.refreshToken # incomingRefreshToken]
              : record \in found }

\* auth.service.ts validateRefreshTokenLogic(): the outcomes it can have.
\* tokenRecords.find() takes the first matching row in the order the SELECT
\* returned them, which the query leaves open.
validateRefreshTokenLogic(rows, userId, incomingRefreshToken, t) ==
    LET tokenRecords == { row \in rows : row.userId = userId }
        found == { row \in tokenRecords :
                     \/ row.refreshToken = incomingRefreshToken
                     \/ row.previousRefreshToken = incomingRefreshToken }
    IN IF found = {}
       THEN {[status |-> 401, record |-> NullToken, isGracePeriod |-> FALSE]}
       ELSE { IF record.refreshToken = incomingRefreshToken
              THEN [status |-> 200, record |-> record.refreshToken,
                    isGracePeriod |-> FALSE]
              ELSE IF /\ record.previousRefreshToken = incomingRefreshToken
                      /\ record.previousRefreshTokenExpiresAt # 0
                      /\ record.previousRefreshTokenExpiresAt > t
              THEN [status |-> 200, record |-> record.refreshToken,
                    isGracePeriod |-> TRUE]
              ELSE [status |-> 401, record |-> NullToken, isGracePeriod |-> FALSE]
              : record \in found }

\* rotateTokens() that keeps the previous token a row already has, with its
\* window, and records the replaced token only in a row that has none.
rotateTokensKeepsOldestPrevious(row, user, currentRefreshToken, rememberMe, t) ==
    IF row.userId = user /\ row.refreshToken = currentRefreshToken
    THEN [row EXCEPT
            !.accessToken = signAccessToken(user, t),
            !.refreshToken = signRefreshToken(user, rememberMe, t),
            !.previousRefreshToken =
                IF @ = NullToken THEN currentRefreshToken ELSE @,
            !.previousRefreshTokenExpiresAt =
                IF row.previousRefreshToken = NullToken
                THEN t + GRACE_PERIOD_MS ELSE @,
            !.expiresAt = ExpiresAt(rememberMe, t)]
    ELSE row

\* rotateTokens() that does not record the token it replaces.
rotateTokensForgetsPrevious(row, user, currentRefreshToken, rememberMe, t) ==
    IF row.userId = user /\ row.refreshToken = currentRefreshToken
    THEN [row EXCEPT
            !.accessToken = signAccessToken(user, t),
            !.refreshToken = signRefreshToken(user, rememberMe, t),
            !.expiresAt = ExpiresAt(rememberMe, t)]
    ELSE row

\* auth.service.ts rotateTokens(): the row an UPDATE ... WHERE user_id = user
\* AND refresh_token = currentRefreshToken leaves in place of `row`.
rotateTokens(row, user, currentRefreshToken, rememberMe, t) ==
    IF row.userId = user /\ row.refreshToken = currentRefreshToken
    THEN [row EXCEPT
            !.accessToken = signAccessToken(user, t),
            !.refreshToken = signRefreshToken(user, rememberMe, t),
            !.previousRefreshToken = currentRefreshToken,
            !.previousRefreshTokenExpiresAt = t + GRACE_PERIOD_MS,
            !.expiresAt = ExpiresAt(rememberMe, t)]
    ELSE row

\* generateNewAccessOnly() that starts the grace window again.
generateNewAccessOnlyExtendsGrace(row, user, refreshToken, t) ==
    IF row.userId = user /\ row.refreshToken = refreshToken
    THEN [row EXCEPT !.accessToken = signAccessToken(user, t),
                     !.previousRefreshTokenExpiresAt = t + GRACE_PERIOD_MS]
    ELSE row

\* auth.service.ts generateNewAccessOnly(): the row its UPDATE leaves in
\* place of `row`.
generateNewAccessOnly(row, user, refreshToken, t) ==
    IF row.userId = user /\ row.refreshToken = refreshToken
    THEN [row EXCEPT !.accessToken = signAccessToken(user, t)]
    ELSE row

\* What the guard leaves in req.user for the controller, and the request's
\* body.rememberMe.
NoHold == [user |-> "", rememberMe |-> FALSE, record |-> NullToken,
           isGracePeriod |-> FALSE]
NoAnswer ==
    [to |-> "", token |-> NullToken, op |-> "none", status |-> 0,
     access_token |-> NullToken, refresh_token |-> NullToken]

\* The guard accepted `token`: the controller runs next, no answer yet.
Accepted(c, token) ==
    [NoAnswer EXCEPT !.to = c, !.token = token]

\* UnauthorizedException thrown by the guard: 401.
Denied(c, token) ==
    [NoAnswer EXCEPT !.to = c, !.token = token, !.status = 401]

\* An exception of the database driver: 500.
Failed(c, op) ==
    [NoAnswer EXCEPT !.to = c, !.op = op, !.status = 500]

\* auth.controller.ts refreshTokens(): { access_token, refresh_token }.
Granted(c, op, accessToken, refreshToken) ==
    [NoAnswer EXCEPT !.to = c, !.op = op, !.status = 200,
                     !.access_token = accessToken, !.refresh_token = refreshToken]

\* auth.controller.ts login() with createTokens(): a session row is inserted
\* for a user whose credentials the local strategy accepted.  The INSERT
\* fails on a taken primary key.
SignIn(user, rememberMe) ==
    /\ LET row == NewSession(user, rememberMe, now)
       IN IF PkTaken(sessions, user, row.refreshToken)
          THEN /\ bresp' = Failed(user, "createTokens")
               /\ UNCHANGED sessions
          ELSE /\ sessions' = sessions \cup {row}
               /\ bresp' = Granted(user, "createTokens", row.accessToken,
                                   row.refreshToken)
    /\ UNCHANGED <<now, ticks, bpc, bloc, rotations, pvars>>

\* Time passes, half a grace period at a time.
TickSteps == {GRACE_PERIOD_MS \div 2}

\* Time passes a day at a time: the lifetime of a refresh token signed
\* without remember-me ('1d').
DaySteps == {REFRESH_TOKEN_SHORT_EXPIRATION_TIME}

\* The values Date.now() takes in a behaviour.
ClockValues ==
    { k * (GRACE_PERIOD_MS \div 2) + d * REFRESH_TOKEN_SHORT_EXPIRATION_TIME :
        k \in 0 .. MaxTicks, d \in 0 .. MaxTicks }

\* The refresh tokens a client can present at time t: those the server can
\* have signed so far.  One whose row is gone, or that was never stored, is
\* looked up like any other.
PresentableTokens(t) ==
    { signRefreshToken(u, rm, s) :
        u \in Users, rm \in BOOLEAN, s \in { v \in ClockValues : v <= t } }

Tick(d) ==
    /\ ticks < MaxTicks
    /\ now' = now + d
    /\ ticks' = ticks + 1
    /\ bresp' = NoAnswer
    /\ UNCHANGED <<sessions, bpc, bloc, rotations, pvars>>

\* POST /auth/refresh, the guard: the bearer token is verified and
\* validateRefreshTokenLogic() looks its row up; its result is req.user.
RefreshValidate(c, token, rememberMe) ==
    /\ bpc[c] = "idle"
    /\ IF ~JwtRefreshVerified(token, now)
       THEN /\ bresp' = Denied(c, token)
            /\ UNCHANGED <<bpc, bloc>>
       ELSE \E v \in validateRefreshTokenLogic(sessions, token.sub, token, now) :
              IF v.status # 200
              THEN /\ bresp' = Denied(c, token)
                   /\ UNCHANGED <<bpc, bloc>>
              ELSE /\ bloc' = [bloc EXCEPT ![c] =
                         [user |-> token.sub, rememberMe |-> rememberMe,
                          record |-> v.record, isGracePeriod |-> v.isGracePeriod]]
                   /\ bpc' = [bpc EXCEPT ![c] = "validated"]
                   /\ bresp' = Accepted(c, token)
    /\ UNCHANGED <<sessions, now, ticks, rotations, pvars>>

\* auth.controller.ts refreshTokens(): in the grace period
\* generateNewAccessOnly() and the record's refresh token; otherwise
\* rotateTokens() and the pair it signed.  An UPDATE that would give two rows
\* the same primary key throws.
RefreshWrite(c) ==
    /\ bpc[c] = "validated"
    /\ LET h == bloc[c]
           user == h.user
           newAccessToken == signAccessToken(user, now)
           newRefreshToken == signRefreshToken(user, h.rememberMe, now)
       IN IF h.isGracePeriod
          THEN /\ sessions' = { generateNewAccessOnly(row, user, h.record, now) :
                                  row \in sessions }
               /\ bresp' = Granted(c, "generateNewAccessOnly", newAccessToken, h.record)
          ELSE IF /\ PkTaken(sessions, user, h.record)
                  /\ newRefreshToken # h.record
                  /\ PkTaken(sessions, user, newRefreshToken)
          THEN /\ bresp' = Failed(c, "rotateTokens")
               /\ UNCHANGED sessions
          ELSE /\ sessions' = { rotateTokens(row, user, h.record, h.rememberMe, now) :
                                  row \in sessions }
               /\ bresp' = Granted(c, "rotateTokens", newAccessToken, newRefreshToken)
    /\ bpc' = [bpc EXCEPT ![c] = "idle"]
    /\ bloc' = [bloc EXCEPT ![c] = NoHold]
    /\ UNCHANGED <<now, ticks, pvars>>

\* jwt-access.strategy.ts, the options of the strategy: the bearer token was
\* signed with the access secret and its exp claim is in the future.
JwtAccessVerified(token, t) ==
    token.typ = "access" /\ (t \div 1000) < token.exp

\* The access tokens a client can present at time t.
PresentableAccessTokens(t) ==
    { signAccessToken(u, s) : u \in Users, s \in { v \in ClockValues : v <= t } }

\* auth.service.ts getTokenByAccessToken(): the rows with that access token.
getTokenByAccessToken(rows, accessToken) ==
    { row \in rows : row.accessToken = accessToken }

\* jwt-access.strategy.ts validate(): the token looked up in the table is the
\* one of the cookie access_token (NullToken: no such cookie); what it
\* returns, req.user, is the user row, which has no accessToken.
validate(rows, payload, cookieAccessToken) ==
    IF getTokenByAccessToken(rows, cookieAccessToken) = {}
    THEN [status |-> 401, id |-> payload.sub, accessToken |-> NullToken]
    ELSE [status |-> 200, id |-> payload.sub, accessToken |-> NullToken]

\* auth.service.ts signOut(): DELETE ... WHERE access_token = accessToken.
signOut(rows, accessToken) ==
    { row \in rows : row.accessToken # accessToken }

\* auth.controller.ts signOut(): { message: 'Successfully logged out.' }.
SignedOut(c, token, op) ==
    [NoAnswer EXCEPT !.to = c, !.token = token, !.op = op, !.status = 200]

\* POST /auth/sign-out: the jwt-access guard, then auth.controller.ts
\* signOut(): authService.signOut(req.user.accessToken) when req.user has an
\* accessToken, and 200 either way.
SignOut(c, bearer, cookieAccessToken) ==
    /\ bpc[c] = "idle"
    /\ LET user == validate(sessions, bearer, cookieAccessToken)
           accessToken == user.accessToken
       IN IF ~JwtAccessVerified(bearer, now) \/ user.status # 200
          THEN /\ bresp' = Denied(c, bearer)
               /\ UNCHANGED sessions
          ELSE IF accessToken # NullToken
          THEN /\ sessions' = signOut(sessions, accessToken)
               /\ bresp' = SignedOut(c, bearer, "signOut")
          ELSE /\ bresp' = SignedOut(c, bearer, "none")
               /\ UNCHANGED sessions
    /\ UNCHANGED <<now, ticks, bpc, bloc, rotations, pvars>>

----------------------------------------------------------------------------
(* Specifications *)

InitBackend ==
    /\ sessions = {}
    /\ now = 0
    /\ ticks = 0
    /\ bpc = [c \in Callers |-> "idle"]
    /\ bloc = [c \in Callers |-> NoHold]
    /\ bresp = NoAnswer
    /\ rotations = <<>>

\* The backend with an empty sessions table; no proxy request is in flight.
InitB ==
    /\ sessions = {}
    /\ now = 0
    /\ ticks = 0
    /\ bpc = [c \in Callers |-> "idle"]
    /\ bloc = [c \in Callers |-> NoHold]
    /\ bresp = NoAnswer
    /\ rotations = <<>>
    /\ req = [r \in Reqs |-> NoRequest]
    /\ pc = [r \in Reqs |-> "off"]
    /\ loc = [r \in Reqs |-> NoLocals]
    /\ sent = [r \in Reqs |-> <<>>]
    /\ refreshSent = [r \in Reqs |-> <<>>]
    /\ out = [r \in Reqs |-> NoResponse]

\* One incoming request, any of Requests, handled by the route handler.
Init ==
    /\ \E rq \in Requests :
         /\ WellFormed(rq)
         /\ req = [r \in Reqs |-> IF r = "r1" THEN rq ELSE NoRequest]
    /\ pc = [r \in Reqs |-> IF r = "r1" THEN "start" ELSE "off"]
    /\ loc = [r \in Reqs |-> NoLocals]
    /\ sent = [r \in Reqs |-> <<>>]
    /\ refreshSent = [r \in Reqs |-> <<>>]
    /\ out = [r \in Reqs |-> NoResponse]
    /\ InitBackend

Next ==
    \/ \E r \in Reqs : Begin(r)
    \/ \E r \in Reqs, ans \in BackendAnswers : ForwardReply(r, ans)
    \/ \E r \in Reqs, ans \in RefreshAnswers : RefreshReply(r, ans)
    \/ \E r \in Reqs, ans \in BackendAnswers : StreamReply(r, ans)
    \/ \E r \in Reqs, ans \in RefreshAnswers : StreamRefreshReply(r, ans)

Spec == Init /\ [][Next]_vars

\* The requests of one session that arrive together: buffered requests with
\* the same intact cookie, all handled by one process.
SessionRequests ==
    { rq \in Requests :
        /\ WellFormed(rq)
        /\ rq.cookie = [state |-> "ok", env |-> Envelope("u1", "AT1", "RT1", FALSE)]
        /\ rq.ctype = "application/json"
        /\ fullPathOf(rq.pathSegments) = "/items"
        /\ rq.search = ""
        /\ rq.authorization = Undef
        /\ rq.method = "GET" }

InitConc ==
    /\ req \in [Reqs -> SessionRequests]
    /\ pc = [r \in Reqs |-> "start"]
    /\ loc = [r \in Reqs |-> NoLocals]
    /\ sent = [r \in Reqs |-> <<>>]
    /\ refreshSent = [r \in Reqs |-> <<>>]
    /\ out = [r \in Reqs |-> NoResponse]
    /\ InitBackend

\* The answers relevant to a refresh: the backend accepts or rejects the
\* access token, the refresh endpoint accepts or rejects the refresh token.
ConcAnswers ==
    { a \in BackendAnswers :
        a.kind = "resp" /\ a.status \in {200, 401, 500} /\ ~a.binary /\ a.body = "json" }

NextConc ==
    \/ \E r \in Reqs : Begin(r)
    \/ \E r \in Reqs, ans \in ConcAnswers : ForwardReply(r, ans)
    \/ \E r \in Reqs, ans \in {"ok", "non2xx"} : RefreshReply(r, ans)

SpecConc == InitConc /\ [][NextConc]_vars

\* Each user signs in on one device: the refresh requests of one session,
\* from any number of tabs, are what is interleaved.
NextBackend ==
    \/ \E u \in Users, rm \in BOOLEAN :
          /\ \A row \in sessions : row.userId # u
          /\ SignIn(u, rm)
    \/ \E d \in TickSteps : Tick(d)
    \/ \E c \in Callers, rm \in BOOLEAN :
          \E t \in PresentableTokens(now) : RefreshValidate(c, t, rm)
    \/ \E c \in Callers : RefreshWrite(c) /\ UNCHANGED rotations

SpecBackend == InitB /\ [][NextBackend]_vars

\* The life of one session over days: sign-in, the refresh requests and the
\* sign-out requests of one client, and the clock moving by seconds or by a
\* day.
NextSession ==
    \/ \E u \in Users, rm \in BOOLEAN :
          /\ \A row \in sessions : row.userId # u
          /\ SignIn(u, rm)
    \/ \E d \in TickSteps \cup DaySteps : Tick(d)
    \/ \E rm \in BOOLEAN :
          \E t \in PresentableTokens(now) : RefreshValidate("c1", t, rm)
    \/ RefreshWrite("c1") /\ UNCHANGED rotations
    \/ \E bearer \in PresentableAccessTokens(now) :
          \E cookie \in {bearer, NullToken} :
            SignOut("c1", bearer, cookie)

SpecSession == InitB /\ [][NextSession]_vars

\* The last two entries of a history.
LastTwo(h) == IF Len(h) <= 2 THEN h ELSE SubSeq(h, Len(h) - 1, Len(h))

\* The history of the write RefreshWrite(c) is about to make: a rotation that
\* finds its row is appended with the token it replaces, the token it writes
\* and the time.
Logged(c) ==
    LET h == bloc[c]
    IN rotations' =
         IF ~h.isGracePeriod /\ PkTaken(sessions, h.user, h.record)
         THEN LastTwo(Append(rotations,
                 [user |-> h.user, from |-> h.record,
                  to |-> signRefreshToken(h.user, h.rememberMe, now),
                  at |-> now]))
         ELSE rotations

\* One session and the refresh requests of one client, with the history of
\* the rotations.
NextChain ==
    \/ \E u \in Users, rm \in BOOLEAN :
          /\ \A row \in sessions : row.userId # u
          /\ SignIn(u, rm)
    \/ \E d \in TickSteps : Tick(d)
    \/ \E rm \in BOOLEAN :
          \E t \in PresentableTokens(now) : RefreshValidate("c1", t, rm)
    \/ RefreshWrite("c1") /\ Logged("c1")

SpecChain == InitB /\ [][NextChain]_vars

\* Several devices of one user: up to MaxSessions sign-ins, and the refresh
\* and sign-out requests of any of them, one request at a time.
NextMulti ==
    \/ \E u \in Users, rm \in BOOLEAN :
          /\ Cardinality(sessions) < MaxSessions
          /\ SignIn(u, rm)
    \/ \E d \in TickSteps : Tick(d)
    \/ \E rm \in BOOLEAN :
          \E t \in PresentableTokens(now) : RefreshValidate("c1", t, rm)
    \/ RefreshWrite("c1") /\ UNCHANGED rotations
    \/ \E bearer \in PresentableAccessTokens(now) :
          SignOut("c1", bearer, bearer)

SpecMulti == InitB /\ [][NextMulti]_vars

\* The session cookie from the response that sets it to the request that
\* presents it.  Envelopes: what sign-in and refresh put into a cookie.
Envelopes ==
    { Envelope(id, at, rt, rm) :
        id \in {"u1", "u2"}, at \in {"AT1", Undef}, rt \in {"RT1", Undef},
        rm \in BOOLEAN }

\* Time passes in half hours and in stretches of four days: the two lifetimes
\* of a session token are an hour and SESSION_EXPIRES_IN.
CodecSteps == {30 * 60 * 1000, 4 * 24 * 60 * 60 * 1000}

\* The token of a set-cookie as jwtVerify() finds it `elapsed` ms after it was
\* signed: its signature no longer matches when the token was altered, and it
\* is expired from its exp claim on.
PresentedCookie(cookieOp, elapsed, tampered) ==
    IF tampered
    THEN [state |-> "tampered", env |-> [cookieOp.env EXCEPT !.id = "intruder"]]
    ELSE [state |-> IF elapsed >= cookieOp.ttl THEN "expired" ELSE "ok",
          env |-> cookieOp.env]

\* The response of a sign-in that set the cookie of some envelope at time 0.
InitCodec ==
    /\ \E env \in Envelopes :
         out = [r \in Reqs |->
                  IF r = "r1"
                  THEN [NoResponse EXCEPT
                          !.status = 200,
                          !.cookie = setSessionCookie(env, env.rememberMe)]
                  ELSE NoResponse]
    /\ pc = [r \in Reqs |-> IF r = "r1" THEN "done" ELSE "off"]
    /\ req = [r \in Reqs |-> NoRequest]
    /\ loc = [r \in Reqs |-> NoLocals]
    /\ sent = [r \in Reqs |-> <<>>]
    /\ refreshSent = [r \in Reqs |-> <<>>]
    /\ InitBackend

\* The browser sends a request with the cookie it holds, or with an altered
\* one.
Present(r, tampered) ==
    /\ pc[r] = "off"
    /\ req' = [req EXCEPT ![r] =
                 [NoRequest EXCEPT
                    !.pathSegments = <<"items">>,
                    !.cookie = PresentedCookie(out["r1"].cookie, now, tampered)]]
    /\ pc' = [pc EXCEPT ![r] = "start"]
    /\ UNCHANGED <<loc, sent, refreshSent, out, bvars>>

NextCodec ==
    \/ \E d \in CodecSteps : pc["r2"] = "off" /\ Tick(d)
    \/ \E tampered \in BOOLEAN : Present("r2", tampered)
    \/ Begin("r2")

SpecCodec == InitCodec /\ [][NextCodec]_vars

\* A backend that may never answer.  What the runtime guarantees is that the
\* handler runs and that a timer that was set fires: the timer of
\* forwardRequestWithRetry (setTimeout(() => controller.abort(), timeoutMs))
\* aborts a buffered attempt that is still pending.  The streaming forward
\* and the refresh call set no timer, and nothing makes the backend answer.
LiveRequests ==
    { rq \in Requests :
        /\ WellFormed(rq)
        /\ rq.search = ""
        /\ rq.authorization = Undef
        /\ rq.pathSegments = <<"items">>
        /\ rq.body \in {"", "json"}
        /\ rq.cookie.state \in {"absent", "ok"}
        /\ rq.ctype # "application/octet-stream" }

InitLive ==
    /\ \E rq \in LiveRequests :
         req = [r \in Reqs |-> IF r = "r1" THEN rq ELSE NoRequest]
    /\ pc = [r \in Reqs |-> IF r = "r1" THEN "start" ELSE "off"]
    /\ loc = [r \in Reqs |-> NoLocals]
    /\ sent = [r \in Reqs |-> <<>>]
    /\ refreshSent = [r \in Reqs |-> <<>>]
    /\ out = [r \in Reqs |-> NoResponse]
    /\ InitBackend

\* route.ts forwardRequestWithRetry() line 114: the timer of the pending
\* attempt fires and the fetch rejects with an AbortError.
TimeoutFires(r) ==
    \E ans \in BackendAnswers : ans.kind = "abort" /\ ForwardReply(r, ans)

SpecLive ==
    /\ InitLive
    /\ [][Next]_vars
    /\ \A r \in Reqs : WF_vars(Begin(r)) /\ WF_vars(TimeoutFires(r))

----------------------------------------------------------------------------
(* Properties of the route handler (Spec, SpecConc) *)

\* C1, as stated: a finished buffered request whose refresh call answered
\* {access_token, refresh_token} and whose retried forward returned a response
\* has sent every forward after the refresh with the new access token, has
\* answered the client with the status of the last of them, and has set a
\* session cookie whose envelope holds the new access and refresh tokens.
C1_AsStated ==
    \A r \in Reqs :
      ( /\ pc[r] = "done"
        /\ ~IsStreaming(req[r])
        /\ loc[r].refresh = "ok"
        /\ loc[r].threw = "none" )
      => LET log == sent[r]
             result == refreshAccessToken("ok")
         IN /\ Len(log) >= 2
            /\ log[Len(log)].phase = 2
            /\ \A i \in 1 .. Len(log) :
                 log[i].phase = 2
                 => /\ log[i].fetch.headers.authorization = result.access_token
                    /\ log[i].fetch.method = req[r].method
                    /\ log[i].fetch.path = fullPathOf(req[r].pathSegments)
                    /\ log[i].fetch.body = log[1].fetch.body
            /\ out[r].status = log[Len(log)].answer.status
            /\ out[r].cookie.op = "set"
            /\ out[r].cookie.env.accessToken = result.access_token
            /\ out[r].cookie.env.refreshToken = result.refresh_token

\* C1, amended: the same, for every request but a sign-in or sign-out request
\* whose retried forward is answered 2xx; the cookie's envelope is the
\* session's with the two tokens replaced, and it is persistent exactly for a
\* remember-me session.
C1_RefreshThenRetry ==
    \A r \in Reqs :
      ( /\ pc[r] = "done"
        /\ ~IsStreaming(req[r])
        /\ loc[r].refresh = "ok"
        /\ loc[r].threw = "none"
        /\ ~ ( /\ fullPathOf(req[r].pathSegments) \in {SIGN_IN_ENDPOINT, SIGN_OUT_ENDPOINT}
               /\ sent[r][Len(sent[r])].answer.status \in 200 .. 299 ) )
      => LET log == sent[r]
             result == refreshAccessToken("ok")
             session == SessionOf(req[r])
         IN /\ Len(log) >= 2
            /\ log[Len(log)].phase = 2
            /\ \A i \in 1 .. Len(log) :
                 log[i].phase = 2
                 => /\ log[i].fetch.headers.authorization = result.access_token
                    /\ log[i].fetch.method = req[r].method
                    /\ log[i].fetch.path = fullPathOf(req[r].pathSegments)
                    /\ log[i].fetch.body = log[1].fetch.body
            /\ out[r].status = log[Len(log)].answer.status
            /\ out[r].cookie =
                 [op |-> "set",
                  env |-> [session EXCEPT !.accessToken = result.access_token,
                                          !.refreshToken = result.refresh_token],
                  persistent |-> session.rememberMe,
                  ttl |-> IF session.rememberMe THEN SESSION_EXPIRES_IN
                          ELSE 60 * 60 * 1000]

\* C1, its case: an authenticated request was answered 401, the refresh
\* succeeded, the retry was answered 200 and the client got 200 with a new
\* cookie.
C1_Witness ==
    \E r \in Reqs :
      /\ pc[r] = "done"
      /\ ~IsStreaming(req[r])
      /\ fullPathOf(req[r].pathSegments) = "/items"
      /\ loc[r].refresh = "ok"
      /\ Len(sent[r]) = 2
      /\ sent[r][1].answer.status = 401
      /\ sent[r][2].answer.status = 200
      /\ out[r].status = 200
      /\ out[r].cookie.op = "set"
      /\ out[r].cookie.env.refreshToken = "RT2"

\* C2: a finished request whose refresh call failed (network error, non-2xx
\* answer, a body that is not JSON, or a JSON body without the token fields)
\* has answered 401, deleted the session cookie, and sent no forward after the
\* refresh.
C2_RefreshFailureEndsSession ==
    \A r \in Reqs :
      ( /\ pc[r] = "done"
        /\ loc[r].refresh \in {"neterr", "non2xx", "unparseable", "wrongshape"} )
      => /\ out[r].status = 401
         /\ out[r].cookie = DeleteCookie
         /\ \A i \in 1 .. Len(sent[r]) : sent[r][i].phase = 1

\* C3: among the requests of one session handled by one process, at most one
\* call to the refresh endpoint is outstanding at any time.
C3_OneRefreshInFlight ==
    Cardinality({ r \in Reqs : pc[r] = "refresh" }) <= 1

\* C8: a finished request, other than sign-in and sign-out, whose refresh
\* call answered {access_token, refresh_token} has set a session cookie whose
\* envelope holds the new access token and the new refresh token.
C8_CookieReissuedOnRefresh ==
    \A r \in Reqs :
      ( /\ pc[r] = "done"
        /\ loc[r].refresh = "ok"
        /\ fullPathOf(req[r].pathSegments) \notin {SIGN_IN_ENDPOINT, SIGN_OUT_ENDPOINT} )
      => /\ out[r].cookie.op = "set"
         /\ out[r].cookie.env.accessToken = refreshAccessToken("ok").access_token
         /\ out[r].cookie.env.refreshToken = refreshAccessToken("ok").refresh_token

\* C9, as stated: a finished streaming request whose forward was answered 401
\* has answered 401 with the code UPLOAD_AUTH_EXPIRED and was forwarded once.
C9_AsStated ==
    \A r \in Reqs :
      ( /\ pc[r] = "done"
        /\ IsStreaming(req[r])
        /\ Len(sent[r]) >= 1
        /\ sent[r][1].answer.kind = "resp"
        /\ sent[r][1].answer.status = 401 )
      => /\ out[r].status = 401
         /\ out[r].code = "UPLOAD_AUTH_EXPIRED"
         /\ Len(sent[r]) = 1

\* C9, amended: a streaming request whose forward was answered 401 is
\* forwarded once and answered 401; the code is UPLOAD_AUTH_EXPIRED when the
\* session holds a refresh token and the refresh call returned a result,
\* TOKEN_REFRESH_FAILED with the cookie deleted when it returned none, and
\* without a session holding a refresh token the backend's own 401 response is
\* passed on and no refresh call is made.
C9_UploadNotReplayed ==
    \A r \in Reqs :
      ( /\ IsStreaming(req[r])
        /\ Len(sent[r]) >= 1
        /\ sent[r][1].answer.kind = "resp"
        /\ sent[r][1].answer.status = 401 )
      => LET session == SessionOf(req[r])
         IN /\ Len(sent[r]) = 1
            /\ sent[r][1].fetch.streaming
            /\ pc[r] \in {"srefresh", "done"}
            /\ pc[r] = "done"
               => /\ out[r].status = 401
                  /\ IF session.present /\ Truthy(session.refreshToken)
                     THEN /\ Len(refreshSent[r]) = 1
                          /\ IF loc[r].refresh \in {"ok", "wrongshape"}
                             THEN /\ out[r].code = "UPLOAD_AUTH_EXPIRED"
                                  /\ out[r].cookie = NoCookieOp
                             ELSE /\ out[r].code = "TOKEN_REFRESH_FAILED"
                                  /\ out[r].cookie = DeleteCookie
                     ELSE /\ Len(refreshSent[r]) = 0
                          /\ out[r].code = ""
                          /\ out[r].piped

\* C9, its case: an upload was answered 401, the refresh went through, and the
\* client got 401 UPLOAD_AUTH_EXPIRED after one forward.
C9_Witness ==
    \E r \in Reqs :
      /\ pc[r] = "done"
      /\ IsStreaming(req[r])
      /\ Len(sent[r]) = 1
      /\ sent[r][1].answer.status = 401
      /\ loc[r].refresh = "ok"
      /\ out[r].status = 401
      /\ out[r].code = "UPLOAD_AUTH_EXPIRED"

\* C10, as stated: a buffered request whose first k forwards (k <= retries)
\* were answered 5xx and whose next forward was answered 200 is finished after
\* exactly k+1 forwards, and the client got 200.
C10_AsStated ==
    \A r \in Reqs : \A k \in 0 .. retries :
      ( /\ ~IsStreaming(req[r])
        /\ Len(sent[r]) >= k + 1
        /\ \A i \in 1 .. k : /\ sent[r][i].answer.kind = "resp"
                             /\ sent[r][i].answer.status >= 500
        /\ sent[r][k + 1].answer.kind = "resp"
        /\ sent[r][k + 1].answer.status = 200 )
      => /\ Len(sent[r]) = k + 1
         /\ pc[r] = "done"
         /\ out[r].status = 200

\* C10, amended: every forward answered 5xx while attempt < retries is
\* followed by another attempt, so after k <= retries answers of 5xx and then
\* 200 the request is finished after exactly k+1 forwards; the client gets
\* 200, except on the sign-in endpoint, where a 200 whose body or whose
\* request body fails the checks of sign-in is answered 502.
C10_RetryUntilSuccess ==
    \A r \in Reqs :
      /\ \A i \in 1 .. Len(sent[r]) :
           ( /\ ~IsStreaming(req[r])
             /\ i <= retries
             /\ sent[r][i].phase = 1
             /\ sent[r][i].answer.kind = "resp"
             /\ sent[r][i].answer.status >= 500 )
           => /\ Len(sent[r]) > i
              /\ sent[r][i + 1].phase = 1
              /\ sent[r][i + 1].fetch = sent[r][i].fetch
      /\ \A k \in 0 .. retries :
           ( /\ ~IsStreaming(req[r])
             /\ Len(sent[r]) >= k + 1
             /\ \A i \in 1 .. k : /\ sent[r][i].answer.kind = "resp"
                                  /\ sent[r][i].answer.status >= 500
             /\ sent[r][k + 1].answer.kind = "resp"
             /\ sent[r][k + 1].answer.status = 200 )
           => /\ Len(sent[r]) = k + 1
              /\ pc[r] = "done"
              /\ IF fullPathOf(req[r].pathSegments) = SIGN_IN_ENDPOINT
                 THEN \/ out[r].status = 200 /\ out[r].cookie.op = "set"
                      \/ /\ out[r].status = 502
                         /\ out[r].code \in {"INVALID_AUTH_RESPONSE",
                                            "INVALID_AUTH_DATA", "BAD_GATEWAY"}
                 ELSE out[r].status = 200

\* C10, its case: two answers of 500, then 200 on the third attempt, and the
\* client got 200.
C10_Witness ==
    \E r \in Reqs :
      /\ pc[r] = "done"
      /\ ~IsStreaming(req[r])
      /\ Len(sent[r]) = retries + 1
      /\ \A i \in 1 .. retries : sent[r][i].answer.status = 500
      /\ sent[r][retries + 1].answer.status = 200
      /\ out[r].status = 200

\* C11, as stated: a buffered request whose first retries+1 forwards were all
\* answered 500 is finished after exactly retries+1 forwards, and the client
\* got a 502-class error.
C11_AsStated ==
    \A r \in Reqs :
      ( /\ ~IsStreaming(req[r])
        /\ Len(sent[r]) >= retries + 1
        /\ \A i \in 1 .. retries + 1 : /\ sent[r][i].answer.kind = "resp"
                                       /\ sent[r][i].answer.status = 500 )
      => /\ Len(sent[r]) = retries + 1
         /\ pc[r] = "done"
         /\ out[r].status = 502

\* C11, amended: a buffered request whose first retries+1 forwards were all
\* answered 500 is finished after exactly retries+1 forwards, no refresh call
\* was made, and the client got the backend's last 500 response passed on:
\* status 500, no error code of the proxy, no cookie operation.
C11_ExhaustedRetriesPassThrough ==
    \A r \in Reqs :
      ( /\ ~IsStreaming(req[r])
        /\ Len(sent[r]) >= retries + 1
        /\ \A i \in 1 .. retries + 1 : /\ sent[r][i].answer.kind = "resp"
                                       /\ sent[r][i].answer.status = 500 )
      => /\ Len(sent[r]) = retries + 1
         /\ \A i \in 1 .. retries + 1 : /\ sent[r][i].phase = 1
                                        /\ sent[r][i].fetch = sent[r][1].fetch
         /\ Len(refreshSent[r]) = 0
         /\ pc[r] = "done"
         /\ out[r].status = 500
         /\ out[r].code = ""
         /\ out[r].cookie = NoCookieOp

\* C11, its case: three forwards of a buffered request, each answered 500,
\* and the request is finished.
C11_Witness ==
    \E r \in Reqs :
      /\ pc[r] = "done"
      /\ ~IsStreaming(req[r])
      /\ Len(sent[r]) = retries + 1
      /\ \A i \in 1 .. retries + 1 : /\ sent[r][i].answer.kind = "resp"
                                     /\ sent[r][i].answer.status = 500
      /\ out[r].status = 500

\* C12: within one call of forwardRequestWithRetry, a forward is followed by
\* another attempt only if it was answered 5xx, timed out or failed on the
\* network; a call whose first forward is answered below 500 (2xx, 4xx, 401
\* included) makes that one attempt.
C12_RetryOnlyAfterFailure ==
    \A r \in Reqs :
      ~IsStreaming(req[r])
      => \A i \in 1 .. Len(sent[r]) :
           /\ ( /\ i < Len(sent[r])
                /\ sent[r][i + 1].phase = sent[r][i].phase )
              => \/ sent[r][i].answer.kind \in {"abort", "neterr"}
                 \/ /\ sent[r][i].answer.kind = "resp"
                    /\ sent[r][i].answer.status >= 500
           /\ ( /\ sent[r][i].answer.kind = "resp"
                /\ sent[r][i].answer.status < 500
                /\ (i = 1 \/ sent[r][i - 1].phase # sent[r][i].phase) )
              => \A j \in 1 .. Len(sent[r]) :
                   sent[r][j].phase = sent[r][i].phase => j = i

\* C12, its case: a buffered request whose first forward was answered 404 is
\* finished after that one forward.
C12_Witness ==
    \E r \in Reqs :
      /\ pc[r] = "done"
      /\ ~IsStreaming(req[r])
      /\ Len(sent[r]) = 1
      /\ sent[r][1].answer.kind = "resp"
      /\ sent[r][1].answer.status = 404
      /\ out[r].status = 404

\* C13, as stated: a finished request one of whose forwards ended in a timeout
\* or network error that no retry was left for has answered 502 or 504, and
\* 504 when that failure was a timeout.
C13_AsStated ==
    \A r \in Reqs :
      (pc[r] = "done" /\ loc[r].threw # "none")
      => /\ out[r].status \in {502, 504}
         /\ loc[r].threw = "abort" => out[r].status = 504

\* C13, amended: a forward whose last attempt ends in a timeout or network
\* error finishes the request with a JSON error response of the proxy that
\* carries a code and changes no cookie.  On the first forward (and on a
\* streaming forward, which is attempted once and has no timeout) it is 504
\* GATEWAY_TIMEOUT for a timeout and 502 BAD_GATEWAY for a network error; on
\* the forward that follows a token refresh it is 502 RETRY_FAILED for both.
C13_FailureBecomesErrorResponse ==
    \A r \in Reqs :
      LET log == sent[r]
          n == Len(log)
          attempts == { i \in 1 .. n : log[i].phase = log[n].phase }
      IN /\ ( /\ n >= 1
              /\ log[n].answer.kind \in {"abort", "neterr"}
              /\ \/ IsStreaming(req[r])
                 \/ Cardinality(attempts) = retries + 1 )
            => /\ pc[r] = "done"
               /\ loc[r].threw = log[n].answer.kind
         /\ (pc[r] = "done" /\ loc[r].threw # "none")
            => /\ n >= 1
               /\ log[n].answer.kind = loc[r].threw
               /\ out[r].body = "json"
               /\ ~out[r].binary
               /\ out[r].cookie = NoCookieOp
               /\ IF log[n].phase = 1
                  THEN IF loc[r].threw = "abort"
                       THEN out[r].status = 504 /\ out[r].code = "GATEWAY_TIMEOUT"
                       ELSE out[r].status = 502 /\ out[r].code = "BAD_GATEWAY"
                  ELSE out[r].status = 502 /\ out[r].code = "RETRY_FAILED"

\* C13, its case: after a refresh every attempt of the retried forward timed
\* out, and the client got an error response of the proxy.
C13_Witness ==
    \E r \in Reqs :
      /\ pc[r] = "done"
      /\ loc[r].refresh = "ok"
      /\ loc[r].threw = "abort"
      /\ Len(sent[r]) = retries + 2
      /\ \A i \in 2 .. retries + 2 : /\ sent[r][i].phase = 2
                                     /\ sent[r][i].answer.kind = "abort"
      /\ out[r].code = "RETRY_FAILED"

\* C14: a finished sign-in request whose forward the backend answered 2xx
\* with a body holding accessToken, refreshToken, id and email has set a
\* session cookie whose envelope carries the tokens of that body and
\* rememberMe equal to the rememberMe of the request body (false when absent),
\* and whose envelope expires after 7 days for rememberMe true and after 1
\* hour otherwise.
C14_SignInSetsSessionCookie ==
    \A r \in Reqs :
      ( /\ pc[r] = "done"
        /\ fullPathOf(req[r].pathSegments) = SIGN_IN_ENDPOINT
        /\ ok(loc[r].response)
        /\ loc[r].response.body = "auth" )
      => LET rememberMe == (req[r].body = "json_rm")
         IN /\ out[r].cookie.op = "set"
            /\ out[r].cookie.env.accessToken = "AT3"
            /\ out[r].cookie.env.refreshToken = "RT3"
            /\ out[r].cookie.env.rememberMe = rememberMe
            /\ out[r].cookie.ttl = IF rememberMe THEN 7 * 24 * 60 * 60 * 1000
                                   ELSE 60 * 60 * 1000

C16_SignOutDeletesCookie ==
    \A r \in Reqs :
      (pc[r] = "done" /\ fullPathOf(req[r].pathSegments) = SIGN_OUT_ENDPOINT)
      => out[r].cookie = DeleteCookie

\* C17: a request without a session cookie, or with one that fails
\* verification (tampered with, or expired), is forwarded, and every forward
\* goes without a session access token (its Authorization header is the one
\* the client sent, if any); no call to the refresh endpoint is made; and
\* when the backend answers 401, the client gets that 401 response
\* passed on.
C17_NoSessionNoRefresh ==
    \A r \in Reqs :
      ( /\ pc[r] \notin {"off", "start"}
        /\ req[r].cookie.state \in {"absent", "tampered", "expired"} )
      => /\ Len(sent[r]) >= 1
         /\ \A i \in 1 .. Len(sent[r]) :
              sent[r][i].fetch.headers.authorization = req[r].authorization
         /\ Len(refreshSent[r]) = 0
         /\ pc[r] \notin {"refresh", "srefresh"}
         /\ ( /\ sent[r][Len(sent[r])].answer.kind = "resp"
              /\ sent[r][Len(sent[r])].answer.status = 401 )
            => /\ pc[r] = "done"
               /\ out[r].status = 401
               /\ out[r].code = ""
               /\ out[r].body = loc[r].response.body
               /\ out[r].cookie = NoCookieOp

\* C17, its case: a request with a tampered cookie was forwarded, answered 401
\* by the backend, and the client got the 401 with no refresh call made.
C17_Witness ==
    \E r \in Reqs :
      /\ pc[r] = "done"
      /\ req[r].cookie.state = "tampered"
      /\ Len(sent[r]) = 1
      /\ sent[r][1].answer.status = 401
      /\ Len(refreshSent[r]) = 0
      /\ out[r].status = 401

\* C18: every call to the refresh endpoint made for a remember-me session
\* conveys the envelope's rememberMe flag to the backend, so that the
\* rotation can sign the new refresh token for the long duration.
C18_RememberMeCarried ==
    \A r \in Reqs :
      \A i \in 1 .. Len(refreshSent[r]) :
        /\ refreshSent[r][i].authorization = SessionOf(req[r]).refreshToken
        /\ SessionOf(req[r]).rememberMe => refreshSent[r][i].body # Undef

\* C22: in buffered mode the body of the request is read once, before the
\* first forward (never for a GET or a HEAD, which carries none), and every
\* forward made for the request, retries and the forward after a refresh
\* included, sends that body with the method, the path and the query string
\* of the request; in streaming mode the body is not read and not cached.
C22_SameRequestEveryAttempt ==
    \A r \in Reqs :
      pc[r] \notin {"off", "start"}
      => IF IsStreaming(req[r])
         THEN /\ loc[r].reads = 0
              /\ loc[r].cachedBody = Undef
              /\ \A i \in 1 .. Len(sent[r]) : sent[r][i].fetch.body = "stream"
         ELSE /\ loc[r].reads = IF req[r].method \in {"GET", "HEAD"} THEN 0 ELSE 1
              /\ \A i \in 1 .. Len(sent[r]) :
                   /\ sent[r][i].fetch.method = req[r].method
                   /\ sent[r][i].fetch.path = fullPathOf(req[r].pathSegments)
                   /\ sent[r][i].fetch.search = req[r].search
                   /\ sent[r][i].fetch.body =
                        IF req[r].method \in {"GET", "HEAD"}
                        THEN Undef ELSE req[r].body

\* C22, its case: a POST with a body and a query string was forwarded, the
\* backend answered 500 and the forward was made again, the backend answered
\* 401, the refresh succeeded and the forward was made a third time.
C22_Witness ==
    \E r \in Reqs :
      /\ ~IsStreaming(req[r])
      /\ req[r].method = "POST"
      /\ req[r].body = "json"
      /\ req[r].search = "?page=2"
      /\ Len(sent[r]) = 3
      /\ sent[r][1].answer.status = 500
      /\ sent[r][2].answer.status = 401
      /\ sent[r][3].phase = 2
      /\ sent[r][3].fetch.body = "json"

\* C23: a binary response of the backend that is handed to the client of a
\* request (one that is not a sign-in or a sign-out) is handed on as the piped
\* byte stream and was never read as text on its way, also when it answers
\* the forward made after a token refresh.
C23_BinaryNeverBuffered ==
    \A r \in Reqs :
      ( /\ pc[r] = "done"
        /\ fullPathOf(req[r].pathSegments) \notin {SIGN_IN_ENDPOINT, SIGN_OUT_ENDPOINT}
        /\ out[r].binary )
      => /\ out[r].piped
         /\ ~out[r].readAsText

\* C24: a response of the backend that is delivered to the client, piped or
\* buffered, has the backend's status and the backend's headers except
\* content-length, content-encoding and transfer-encoding, none of which it
\* carries.
C24_RecomputedHeadersStripped ==
    \A r \in Reqs :
      ( /\ pc[r] = "done"
        /\ out[r].code = ""
        /\ out[r].status # 0 )
      => /\ out[r].status = loc[r].response.status
         /\ out[r].headers = loc[r].response.headers \ RecomputedHeaders

\* C25: a request with an empty list of path segments is answered 400 and
\* nothing is forwarded for it; for a request with a non-empty list, every
\* forward goes to the path made of the segments, each preceded by "/", with
\* the query string of the request.
C25_EmptyPathRejected ==
    \A r \in Reqs :
      pc[r] \notin {"off", "start"}
      => IF req[r].pathSegments = <<>>
         THEN /\ Len(sent[r]) = 0
              /\ pc[r] = "done"
              /\ out[r].status = 400
         ELSE /\ Len(sent[r]) >= 1
              /\ \A i \in 1 .. Len(sent[r]) :
                   /\ sent[r][i].fetch.path \in {"/items", "/auth/sign-in",
                                                 "/auth/sign-out"}
                   /\ sent[r][i].fetch.path = fullPathOf(req[r].pathSegments)
                   /\ sent[r][i].fetch.search = req[r].search

\* C26: every forward made for a request, buffered or streaming, first
\* attempt or retry, carries the headers of the request without host and
\* without cookie; its Authorization header is the access token in use (the
\* session's, or the refreshed one after a refresh) whenever there is one,
\* whatever Authorization header the client sent, and the client's otherwise.
C26_ForwardedHeaders ==
    \A r \in Reqs :
      \A i \in 1 .. Len(sent[r]) :
        LET h == sent[r][i].fetch.headers
            token == IF sent[r][i].phase = 2
                     THEN loc[r].result.access_token
                     ELSE loc[r].session.accessToken
        IN /\ h.host = Undef
           /\ h.cookie = Undef
           /\ h.ctype = IncomingHeaders(req[r]).ctype
           /\ h.authorization =
                IF Truthy(token) THEN token
                ELSE IncomingHeaders(req[r]).authorization

\* C26, its case: a request that came with a session cookie and with an
\* Authorization header of the client's own was forwarded with the session's
\* access token, and after a refresh with the refreshed one.
C26_Witness ==
    \E r \in Reqs :
      /\ IncomingHeaders(req[r]).authorization = "client"
      /\ IncomingHeaders(req[r]).cookie = "session"
      /\ IncomingHeaders(req[r]).host = "frontend"
      /\ Len(sent[r]) = 2
      /\ sent[r][1].fetch.headers.authorization = "AT1"
      /\ sent[r][2].phase = 2
      /\ sent[r][2].fetch.headers.authorization \notin {"AT1", "client", Undef}

\* C29: for one request at most one refresh call is made; it is made only
\* after a forward of the first round was answered 401 (the last forward of
\* that round); a forward of the second round is sent only after the refresh
\* call was answered 2xx with a JSON body; and once a forward of the second
\* round is answered 401, the request is finished with that 401 and no
\* further refresh call.
C29_OneRefreshPerRequest ==
    \A r \in Reqs :
      LET n == Len(sent[r])
          retried == n >= 1 /\ sent[r][n].phase = 2
      IN /\ Len(refreshSent[r]) <= 1
         /\ Len(refreshSent[r]) = 1
            => \E i \in 1 .. n :
                 /\ sent[r][i].phase = 1
                 /\ sent[r][i].answer.kind = "resp"
                 /\ sent[r][i].answer.status = 401
                 /\ \A j \in 1 .. n : j > i => sent[r][j].phase = 2
         /\ retried
            => /\ Len(refreshSent[r]) = 1
               /\ loc[r].refresh \in {"ok", "wrongshape"}
               /\ ~loc[r].result.isNull
         /\ ( /\ retried
              /\ sent[r][n].answer.kind = "resp"
              /\ sent[r][n].answer.status = 401 )
            => /\ pc[r] = "done"
               /\ out[r].status = 401
               /\ out[r].code = ""

\* C29, its case: the forward made after a successful refresh was answered 401
\* and the client got that 401, one refresh call having been made.
C29_Witness ==
    \E r \in Reqs :
      /\ pc[r] = "done"
      /\ Len(refreshSent[r]) = 1
      /\ loc[r].refresh = "ok"
      /\ Len(sent[r]) = 2
      /\ sent[r][1].answer.status = 401
      /\ sent[r][2].phase = 2
      /\ sent[r][2].answer.status = 401
      /\ out[r].status = 401

----------------------------------------------------------------------------
(* Properties of the backend's refresh endpoint (SpecBackend) *)

\* C4: a refresh request that presents a token T which is the current
\* refreshToken of a session record of the token's user is taken as a
\* rotation, and when rotateTokens() finds T still current it is answered 200
\* with a pair signed now, and that same record then holds the answer's
\* refresh token as refreshToken, the answer's access token as accessToken,
\* previousRefreshToken = T and previousRefreshTokenExpiresAt = now + 20 s.
C4_RotationUpdatesRecord ==
    [][\A c \in Callers :
         /\ ( /\ bpc[c] = "idle"
              /\ bresp'.to = c
              /\ bresp'.token # NullToken
              /\ JwtRefreshVerified(bresp'.token, now)
              /\ PkTaken(sessions, bresp'.token.sub, bresp'.token) )
            => /\ bpc'[c] = "validated"
               /\ ~bloc'[c].isGracePeriod
               /\ bloc'[c].user = bresp'.token.sub
               /\ bloc'[c].record = bresp'.token
         /\ ( /\ bpc[c] = "validated"
              /\ bpc'[c] = "idle"
              /\ ~bloc[c].isGracePeriod
              /\ PkTaken(sessions, bloc[c].user, bloc[c].record) )
            => LET T == bloc[c].record
                   user == bloc[c].user
               IN /\ bresp'.to = c
                  /\ bresp'.status = 200
                  /\ bresp'.access_token = signAccessToken(user, now)
                  /\ bresp'.refresh_token.typ = "refresh"
                  /\ bresp'.refresh_token.sub = user
                  /\ bresp'.refresh_token.iat = now \div 1000
                  /\ \E row \in sessions, after \in sessions' :
                       /\ row.userId = user
                       /\ row.refreshToken = T
                       /\ after.userId = user
                       /\ after.refreshToken = bresp'.refresh_token
                       /\ after.accessToken = bresp'.access_token
                       /\ after.previousRefreshToken = T
                       /\ after.previousRefreshTokenExpiresAt = now + GRACE_PERIOD_MS
                       /\ sessions' = (sessions \ {row}) \cup {after}
      ]_vars

\* C4, its case: a rotation has just been answered, and the record holds the
\* new pair next to the token it replaced.
C4_Witness ==
    /\ bresp.status = 200
    /\ bresp.op = "rotateTokens"
    /\ \E row \in sessions :
         /\ row.refreshToken = bresp.refresh_token
         /\ row.accessToken = bresp.access_token
         /\ row.previousRefreshToken # NullToken
         /\ row.previousRefreshToken # row.refreshToken
         /\ row.previousRefreshTokenExpiresAt = now + GRACE_PERIOD_MS

\* C5: after a rotation T -> T', a refresh request that presents the old
\* token T while now < previousRefreshTokenExpiresAt is taken as a
\* grace-period request for T', and it is answered 200 with an access token
\* signed now together with T'; its write rotates nothing: no record's
\* refreshToken, previousRefreshToken or previousRefreshTokenExpiresAt
\* changes.
C5_GraceReturnsRotatedToken ==
    [][\A c \in Callers :
         /\ \A row \in sessions :
              ( /\ bpc[c] = "idle"
                /\ bresp'.to = c
                /\ bresp'.token # NullToken
                /\ JwtRefreshVerified(bresp'.token, now)
                /\ row.userId = bresp'.token.sub
                /\ row.previousRefreshToken = bresp'.token
                /\ row.refreshToken # bresp'.token
                /\ now < row.previousRefreshTokenExpiresAt )
              => /\ bpc'[c] = "validated"
                 /\ bloc'[c].isGracePeriod
                 /\ bloc'[c].record = row.refreshToken
         /\ ( /\ bpc[c] = "validated"
              /\ bpc'[c] = "idle"
              /\ bloc[c].isGracePeriod )
            => /\ bresp'.to = c
               /\ bresp'.status = 200
               /\ bresp'.access_token = signAccessToken(bloc[c].user, now)
               /\ bresp'.refresh_token = bloc[c].record
               /\ Cardinality(sessions') = Cardinality(sessions)
               /\ { <<row.userId, row.refreshToken, row.previousRefreshToken,
                      row.previousRefreshTokenExpiresAt>> : row \in sessions' }
                  = { <<row.userId, row.refreshToken, row.previousRefreshToken,
                        row.previousRefreshTokenExpiresAt>> : row \in sessions }
      ]_vars

\* C5, its case: a grace-period request has just been answered with the
\* record's current refresh token, some time after the rotation.
C5_Witness ==
    /\ bresp.status = 200
    /\ bresp.op = "generateNewAccessOnly"
    /\ \E row \in sessions :
         /\ row.refreshToken = bresp.refresh_token
         /\ row.accessToken = bresp.access_token
         /\ row.previousRefreshToken # NullToken
         /\ row.previousRefreshToken # row.refreshToken
         /\ now < row.previousRefreshTokenExpiresAt
         /\ row.previousRefreshTokenExpiresAt < now + GRACE_PERIOD_MS

\* C6: a refresh request presenting a token that is no record's current
\* refresh token and is either a record's previous token whose grace window
\* has ended (now >= previousRefreshTokenExpiresAt) or no record's previous
\* token at all is answered 401, and the sessions table is left as it was.
C6_StaleTokenDenied ==
    [][\A c \in Callers :
         ( /\ bpc[c] = "idle"
           /\ bresp'.to = c
           /\ bresp'.token # NullToken
           /\ \A row \in sessions :
                row.userId = bresp'.token.sub
                => /\ row.refreshToken # bresp'.token
                   /\ row.previousRefreshToken = bresp'.token
                      => now >= row.previousRefreshTokenExpiresAt )
         => /\ bresp'.status = 401
            /\ bpc'[c] = "idle"
            /\ sessions' = sessions
      ]_vars

\* C6, its case: the token a rotation replaced has just been presented after
\* its grace window ended, and was denied.
C6_Witness ==
    /\ bresp.status = 401
    /\ \E row \in sessions :
         /\ row.userId = bresp.token.sub
         /\ row.previousRefreshToken = bresp.token
         /\ row.refreshToken # bresp.token
         /\ now >= row.previousRefreshTokenExpiresAt

\* C7: whenever a refresh request is answered with the pair rotateTokens()
\* signed, the refresh token of the answer is afterwards a record's current
\* refreshToken, or its previousRefreshToken inside the grace window.
C7_AnsweredPairIsPersisted ==
    (bresp.status = 200 /\ bresp.op = "rotateTokens")
    => \E row \in sessions :
         /\ row.userId = bresp.refresh_token.sub
         /\ \/ row.refreshToken = bresp.refresh_token
            \/ /\ row.previousRefreshToken = bresp.refresh_token
               /\ now < row.previousRefreshTokenExpiresAt

\* C30: when a grace-period refresh is written to a record whose access token
\* is the one its rotation signed (signed together with the record's refresh
\* token), that access token still passes the access-token check afterwards:
\* it is unexpired and it is stored in a session record.
C30_GraceKeepsRotatedAccessToken ==
    [][\A c \in Callers :
         ( /\ bpc[c] = "validated"
           /\ bpc'[c] = "idle"
           /\ bloc[c].isGracePeriod )
         => \A row \in sessions :
              ( /\ row.userId = bloc[c].user
                /\ row.refreshToken = bloc[c].record
                /\ row.accessToken.iat = row.refreshToken.iat )
              => /\ JwtAccessVerified(row.accessToken, now')
                 /\ validate(sessions', row.accessToken, row.accessToken).status = 200
      ]_vars

----------------------------------------------------------------------------
(* Properties of a session's life (SpecSession) *)

\* C19: a refresh request is accepted only if the exp claim of the token it
\* presents and the expiresAt of the session record it is matched with are
\* both in the future; a request presenting the current refresh token of a
\* record whose expiresAt has passed is answered 401 and changes nothing.
C19_ExpiredRecordDenied ==
    [][\A c \in Callers :
         /\ ( /\ bpc[c] = "idle"
              /\ bpc'[c] = "validated" )
            => /\ bresp'.token.typ = "refresh"
               /\ (now \div 1000) < bresp'.token.exp
               /\ \E row \in sessions :
                    /\ row.userId = bloc'[c].user
                    /\ row.refreshToken = bloc'[c].record
                    /\ row.expiresAt > now
         /\ ( /\ bpc[c] = "idle"
              /\ bresp'.to = c
              /\ bresp'.token.typ = "refresh"
              /\ \E row \in sessions :
                   /\ row.userId = bresp'.token.sub
                   /\ row.refreshToken = bresp'.token
                   /\ row.expiresAt <= now )
            => /\ bresp'.status = 401
               /\ bpc'[c] = "idle"
               /\ sessions' = sessions
      ]_vars

\* C19, its case: the current refresh token of a record whose expiresAt has
\* passed was presented, and the request was answered 401.
C19_Witness ==
    /\ bresp.status = 401
    /\ bresp.token.typ = "refresh"
    /\ \E row \in sessions :
         /\ row.userId = bresp.token.sub
         /\ row.refreshToken = bresp.token
         /\ row.expiresAt <= now

\* C20: when a sign-out request is answered 200, the session record holding
\* the access token it presented is no longer in the table, and neither that
\* record's refresh token nor its previous refresh token is accepted by the
\* refresh endpoint's lookup any more.
C20_SignOutRemovesRecord ==
    [][( /\ bresp'.status = 200
         /\ bresp'.token.typ = "access" )
       => \A row \in getTokenByAccessToken(sessions, bresp'.token) :
            /\ row \notin sessions'
            /\ \A T \in {row.refreshToken, row.previousRefreshToken} :
                 \A v \in validateRefreshTokenLogic(sessions', row.userId, T, now) :
                   v.status = 401
      ]_vars

----------------------------------------------------------------------------
(* Properties of several sessions of one user (SpecMulti) *)

\* C21: a user may hold several session records: every sign-in adds a record
\* and leaves the existing ones as they are; a refresh request that presents
\* the current refresh token of a record is performed on that record; the
\* write of a rotation or of a grace-period refresh leaves every record but
\* the one it is performed on unchanged; and a sign-out leaves every record
\* but those holding the access token presented unchanged.
C21_OtherSessionsUntouched ==
    [][/\ bresp'.op = "createTokens"
          => /\ bresp'.status = 200
             /\ sessions \subseteq sessions'
             /\ Cardinality(sessions') = Cardinality(sessions) + 1
       /\ \A c \in Callers :
            /\ ( /\ bpc[c] = "idle"
                 /\ bpc'[c] = "validated"
                 /\ PkTaken(sessions, bresp'.token.sub, bresp'.token) )
               => bloc'[c].record = bresp'.token
            /\ ( /\ bpc[c] = "validated"
                 /\ bpc'[c] = "idle" )
               => \A row \in sessions :
                    ( \/ row.userId # bloc[c].user
                      \/ row.refreshToken # bloc[c].record )
                    => row \in sessions'
       /\ ( /\ bresp'.status = 200
            /\ bresp'.token.typ = "access" )
          => \A row \in sessions :
               row.accessToken # bresp'.token => row \in sessions'
      ]_vars

----------------------------------------------------------------------------
(* Properties of a backend that may never answer (SpecLive) *)

\* C27: every request the handler has taken up eventually gets its response,
\* in buffered mode and in streaming mode, whether or not the backend ever
\* answers: an attempt that is not answered is abandoned when its timer fires.
C27_EveryRequestAnswered ==
    \A r \in Reqs : (pc[r] = "start") ~> (pc[r] = "done")

\* The forwards of request r made by its first (1) or its second (2) call of
\* forwardRequestWithRetry.
AttemptsOf(r, phase) ==
    { i \in 1 .. Len(sent[r]) : sent[r][i].phase = phase }

\* C32: a call of forwardRequestWithRetry makes at most retries + 1 forwards
\* and ends, whether or not the backend answers, by returning the response of
\* its last forward or by throwing the error of its last forward after
\* retries + 1 of them; a buffered request makes at most two such calls,
\* hence at most 2 * (retries + 1) forwards, and at most one refresh call.
C32_BoundedAttempts ==
    /\ [](\A r \in Reqs :
            ~IsStreaming(req[r])
            => /\ Cardinality(AttemptsOf(r, 1)) <= retries + 1
               /\ Cardinality(AttemptsOf(r, 2)) <= retries + 1
               /\ \A i \in 1 .. Len(sent[r]) : sent[r][i].phase \in {1, 2}
               /\ Len(sent[r]) <= 2 * (retries + 1)
               /\ Len(refreshSent[r]) <= 1
               /\ ( pc[r] = "done" /\ Len(sent[r]) > 0 )
                  => LET last == sent[r][Len(sent[r])]
                     IN \/ /\ last.answer.kind = "resp"
                           /\ loc[r].threw = "none"
                           /\ loc[r].response.status = last.answer.status
                        \/ /\ last.answer.kind \in {"abort", "neterr"}
                           /\ loc[r].threw = last.answer.kind
                           /\ Cardinality(AttemptsOf(r, last.phase)) = retries + 1)
    /\ \A r \in Reqs :
         ( pc[r] = "fetch" /\ ~IsStreaming(req[r]) ) ~> ( pc[r] # "fetch" )

\* C32, its case: a buffered request that is finished after 2 * (retries + 1)
\* forwards and one refresh call, the last forward having timed out.
C32_Witness ==
    \E r \in Reqs :
      /\ pc[r] = "done"
      /\ ~IsStreaming(req[r])
      /\ Len(sent[r]) = 2 * (retries + 1)
      /\ Cardinality(AttemptsOf(r, 1)) = retries + 1
      /\ Len(refreshSent[r]) = 1
      /\ sent[r][Len(sent[r])].answer.kind = "abort"
      /\ loc[r].threw = "abort"

----------------------------------------------------------------------------
(* Properties of the session cookie codec (SpecCodec) *)

----------------------------------------------------------------------------
(* Properties of successive rotations (SpecChain) *)

\* C31: after two successive rotations T0 -> T1 -> T2 of a session (three
\* different tokens), a refresh request that presents T0 is denied with 401,
\* however short the time since T0 was replaced; one that presents T1 while
\* less than GRACE_PERIOD_MS have passed since T1 was replaced is taken as a
\* grace-period request for T2, and its answer carries T2.
C31_OnlyPreviousTokenTolerated ==
    [][Len(rotations) = 2
       => LET T0 == rotations[1].from
              T1 == rotations[2].from
              T2 == rotations[2].to
              presented(token) ==
                  /\ bpc["c1"] = "idle"
                  /\ bresp'.to = "c1"
                  /\ bresp'.op = "none"
                  /\ bresp'.token = token
          IN ( /\ rotations[1].to = T1
               /\ T0 # T1
               /\ T1 # T2
               /\ T0 # T2 )
             => /\ presented(T0)
                   => /\ bresp'.status = 401
                      /\ bpc'["c1"] = "idle"
                /\ ( /\ presented(T1)
                     /\ JwtRefreshVerified(T1, now)
                     /\ now < rotations[2].at + GRACE_PERIOD_MS )
                   => /\ bpc'["c1"] = "validated"
                      /\ bloc'["c1"].isGracePeriod
                      /\ bloc'["c1"].record = T2
                /\ ( /\ bpc["c1"] = "validated"
                     /\ bpc'["c1"] = "idle"
                     /\ bloc["c1"].isGracePeriod
                     /\ bloc["c1"].record = T2 )
                   => /\ bresp'.status = 200
                      /\ bresp'.refresh_token = T2
      ]_vars

\* C31, its case: T0 was replaced by T1 and T1 by T2, T0 has just been
\* presented less than GRACE_PERIOD_MS after it was replaced, and it was
\* denied.
C31_Witness ==
    /\ Len(rotations) = 2
    /\ rotations[1].to = rotations[2].from
    /\ rotations[1].from # rotations[1].to
    /\ rotations[2].from # rotations[2].to
    /\ rotations[1].from # rotations[2].to
    /\ now < rotations[1].at + GRACE_PERIOD_MS
    /\ \E row \in sessions :
         /\ row.refreshToken = rotations[2].to
         /\ row.previousRefreshToken = rotations[2].from
    /\ bresp.to = "c1"
    /\ bresp.token = rotations[1].from
    /\ bresp.status = 401
====
